---- MODULE Spec2Model ----
(***************************************************************************)
(* Model of engine/src/lib.rs: the stroke smoothing entry point            *)
(* (smooth_stroke), the Chaikin subdivider, the wire serializer and the    *)
(* alloc / free_buffer pair, together with a host that owns the returned   *)
(* raw handles.                                                            *)
(*                                                                         *)
(* f32 scalars are modelled in fixed point: the integer v stands for the   *)
(* binary32 value v / Scale.  The inputs drawn below are multiples of 1/4  *)
(* of magnitude below 2^10, so every product by 0.75 or 0.25 and every sum *)
(* of the two iterations is a multiple of 1/Scale that binary32 (24-bit    *)
(* significand) represents exactly: the integer arithmetic below is the    *)
(* arithmetic the code performs, without rounding.  NaN, infinities,       *)
(* negative zero and subnormals are outside the modelled inputs.           *)
(***************************************************************************)
EXTENDS Integers, Sequences, FiniteSets, Bags, TLC

VARIABLES heap, handles, last, ub

vars == <<heap, handles, last, ub>>

(* ---------------------------------------------------------------- bounds *)
MaxSamples == 2
MaxLive == 2
MaxSize == 2

(* ------------------------------------------------------------- constants *)
NULL == 0
DANGLING == 1
ITERATIONS == 2

RECURSIVE Pow(_, _)
Pow(b, k) == IF k = 0 THEN 1 ELSE b * Pow(b, k - 1)

RECURSIVE Log2Floor(_)
Log2Floor(m) == IF m < 2 THEN 0 ELSE 1 + Log2Floor(m \div 2)

\* Fixed-point resolution: inputs are multiples of 1/4 and each of the
\* ITERATIONS passes multiplies by quarters once.
FracBits == 2 + 2 * ITERATIONS
Scale == Pow(2, FracBits)

Abs(v) == IF v < 0 THEN 0 - v ELSE v

(* ------------------------------------------------------------ f32 scalars *)
\* 0.75 * v and 0.25 * v on binary32 values (exact on the modelled inputs).
mul_075(v) == (3 * v) \div 4
mul_025(v) == v \div 4

\* IEEE-754 binary32 fields of the scalar v / Scale.
f32_fields(v) ==
    IF v = 0 THEN [sign |-> 0, exp |-> 0, mant |-> 0]
    ELSE LET a == Abs(v)
             e == Log2Floor(a)
         IN [sign |-> IF v < 0 THEN 1 ELSE 0,
             exp  |-> e - FracBits + 127,
             mant |-> (a - Pow(2, e)) * Pow(2, 23 - e)]

\* Variant of f32_to_le_bytes: most significant byte first.
f32_to_le_bytes_be(v) ==
    LET b == f32_fields(v)
    IN << b.sign * 128 + b.exp \div 2,
          (b.exp % 2) * 128 + b.mant \div 65536,
          (b.mant \div 256) % 256,
          b.mant % 256 >>

\* f32::to_le_bytes: least significant byte first.
f32_to_le_bytes(v) ==
    LET b == f32_fields(v)
    IN << b.mant % 256,
          (b.mant \div 256) % 256,
          (b.exp % 2) * 128 + b.mant \div 65536,
          b.sign * 128 + b.exp \div 2 >>

\* u32::to_le_bytes.
u32_to_le_bytes(n) ==
    << n % 256, (n \div 256) % 256, (n \div 65536) % 256, (n \div 16777216) % 256 >>

(* ------------------------------------------------------- input validation *)
\* Variant of is_rejected: the triplet check left out.
is_rejected_no_mod(points_ptr, points_len) ==
    points_ptr = NULL \/ points_len = 0

\* The guard of smooth_stroke: null pointer, zero length, or not triplets.
is_rejected(points_ptr, points_len) ==
    points_ptr = NULL \/ points_len = 0 \/ points_len % 3 # 0

(* ----------------------------------------------------- Chaikin subdivider *)
\* Variant of segment_points: the x weights of q and r exchanged.
segment_points_swapped(current, i) ==
    LET x0 == current[i * 3 + 1]
        y0 == current[i * 3 + 2]
        p0 == current[i * 3 + 3]
        x1 == current[(i + 1) * 3 + 1]
        y1 == current[(i + 1) * 3 + 2]
        p1 == current[(i + 1) * 3 + 3]
    IN << mul_025(x0) + mul_075(x1),
          mul_075(y0) + mul_025(y1),
          mul_075(p0) + mul_025(p1),
          mul_075(x0) + mul_025(x1),
          mul_025(y0) + mul_075(y1),
          mul_025(p0) + mul_075(p1) >>

\* Variant of segment_points: r_p weighted 0.75 / 0.75.
segment_points_overshoot(current, i) ==
    LET x0 == current[i * 3 + 1]
        y0 == current[i * 3 + 2]
        p0 == current[i * 3 + 3]
        x1 == current[(i + 1) * 3 + 1]
        y1 == current[(i + 1) * 3 + 2]
        p1 == current[(i + 1) * 3 + 3]
    IN << mul_075(x0) + mul_025(x1),
          mul_075(y0) + mul_025(y1),
          mul_075(p0) + mul_025(p1),
          mul_025(x0) + mul_075(x1),
          mul_025(y0) + mul_075(y1),
          mul_075(p0) + mul_075(p1) >>

\* The six scalars pushed for segment i (0-based) of current:
\* q at 1/4 along the segment, then r at 3/4.
segment_points(current, i) ==
    LET x0 == current[i * 3 + 1]
        y0 == current[i * 3 + 2]
        p0 == current[i * 3 + 3]
        x1 == current[(i + 1) * 3 + 1]
        y1 == current[(i + 1) * 3 + 2]
        p1 == current[(i + 1) * 3 + 3]
    IN << mul_075(x0) + mul_025(x1),
          mul_075(y0) + mul_025(y1),
          mul_075(p0) + mul_025(p1),
          mul_025(x0) + mul_075(x1),
          mul_025(y0) + mul_075(y1),
          mul_025(p0) + mul_075(p1) >>

\* The pushes of the segment loop for i in from..(upto - 1).
RECURSIVE segment_loop(_, _, _)
segment_loop(current, from, upto) ==
    IF from >= upto THEN << >>
    ELSE segment_points(current, from) \o segment_loop(current, from + 1, upto)

\* Variant of chaikin_iteration: the last point is not kept.
chaikin_iteration_no_last(current) ==
    SubSeq(current, 1, 3)
      \o segment_loop(current, 0, Len(current) \div 3 - 1)

\* Variant of chaikin_iteration: the first point is not kept.
chaikin_iteration_no_first(current) ==
    LET last_idx == Len(current) - 3
    IN segment_loop(current, 0, Len(current) \div 3 - 1)
         \o SubSeq(current, last_idx + 1, last_idx + 3)

\* One pass of the iteration loop body: first point, two points per
\* segment, last point.
chaikin_iteration(current) ==
    LET last_idx == Len(current) - 3
    IN SubSeq(current, 1, 3)
         \o segment_loop(current, 0, Len(current) \div 3 - 1)
         \o SubSeq(current, last_idx + 1, last_idx + 3)

\* The value of current after the iteration loop has run `iterations`
\* times (or broken out early on fewer than two samples).
RECURSIVE chaikin_subdivide(_, _)
chaikin_subdivide(points, iterations) ==
    IF iterations = 0 \/ Len(points) < 6 THEN points
    ELSE chaikin_subdivide(chaikin_iteration(points), iterations - 1)

(* -------------------------------------------------------------- serializer *)
\* Variant of payload_bytes: scalars written last to first.
RECURSIVE payload_bytes_reversed(_)
payload_bytes_reversed(points) ==
    IF points = << >> THEN << >>
    ELSE payload_bytes_reversed(Tail(points)) \o f32_to_le_bytes(Head(points))

\* The bytes appended by the loop over points, in iteration order.
RECURSIVE payload_bytes(_)
payload_bytes(points) ==
    IF points = << >> THEN << >>
    ELSE f32_to_le_bytes(Head(points)) \o payload_bytes(Tail(points))

\* Variant of serialize_points: the header counts scalars, not samples.
serialize_points_scalar_count(points) ==
    LET point_count == Len(points)
        total_bytes == 4 + Len(points) * 4
    IN [cap |-> total_bytes,
        bytes |-> u32_to_le_bytes(point_count) \o payload_bytes(points)]

\* The Vec<u8> that serialize_points builds and forgets: its capacity and
\* the bytes written into it.
serialize_points(points) ==
    LET point_count == Len(points) \div 3
        total_bytes == 4 + Len(points) * 4
    IN [cap |-> total_bytes,
        bytes |-> u32_to_le_bytes(point_count) \o payload_bytes(points)]

(* -------------------------------------------------------------------- host *)
\* The pen path the host draws strokes from, as (x, y, pressure) samples in
\* units of 1/Scale: (0,0,0), (10,0,1), (4,-8,0.5), (-2,6,0.25).
PenPath ==
    << <<0, 0, 0>>,
       <<10 * Scale, 0, Scale>>,
       <<4 * Scale, 0 - 8 * Scale, Scale \div 2>>,
       <<0 - 2 * Scale, 6 * Scale, Scale \div 4>> >>

RECURSIVE Flatten(_)
Flatten(ss) == IF ss = << >> THEN << >> ELSE Head(ss) \o Flatten(Tail(ss))

\* The n consecutive samples of the (cyclic) pen path starting at sample s.
Window(s, n) == [k \in 1..n |-> PenPath[((s + k - 2) % Len(PenPath)) + 1]]

\* Well-formed strokes: 1..MaxSamples consecutive samples of the pen path.
Strokes ==
    { Flatten(Window(s, n)) : s \in 1..Len(PenPath), n \in 1..MaxSamples }

\* Caller memory whose length is zero or not a multiple of 3.
Malformed ==
    { [k \in 1..n |-> 0] : n \in { m \in 0..(3 * MaxSamples + 1) : m = 0 \/ m % 3 # 0 } }

Memories == Strokes \cup Malformed

\* The caller's own memory lies outside the addresses the module allocates.
Addrs == 2..(MaxLive + 1)
HostPtr == MaxLive + 2

\* The host reads the u32 little-endian point count of a wire buffer.
HeaderCount(bytes) ==
    IF Len(bytes) < 4 THEN 0 - 1
    ELSE bytes[1] + 256 * bytes[2] + 65536 * bytes[3] + 16777216 * bytes[4]

(* ------------------------------------------------------------ entry point *)
\* smooth_stroke past validation: the slice read from caller memory, the
\* successive values of `current` in chaikin_subdivide (empty on the
\* identity path), and the buffer serialize_points builds.
smooth(points) ==
    LET small == Len(points) < 6
        trace == IF small THEN << >>
                 ELSE [k \in 1..(ITERATIONS + 1) |-> chaikin_subdivide(points, k - 1)]
        smoothed == IF small THEN points ELSE chaikin_subdivide(points, ITERATIONS)
    IN [trace |-> trace, buf |-> serialize_points(smoothed)]

\* smooth_stroke keeps no state between calls: its result on each caller
\* memory is evaluated once.
Smoothed == [points \in Memories |-> smooth(points)]

NoCall == [op |-> "init", ptr |-> NULL, len |-> 0, mem |-> << >>, ret |-> NULL, trace |-> << >>]

Init ==
    /\ heap = << >>
    /\ handles = EmptyBag
    /\ last = NoCall
    /\ ub = FALSE

Store(h, p, buf) == [a \in DOMAIN h \cup {p} |-> IF a = p THEN buf ELSE h[a]]

Drop(h, p) == [a \in DOMAIN h \ {p} |-> h[a]]

(* ---------------------------------------------------------------- actions *)
\* smooth_stroke(points_ptr, points_len) with mem the caller's memory at
\* points_ptr.  The host files the returned handle under the size
\* 4 + 12 * point_count it reads from the header.
smooth_stroke(points_ptr, points_len, mem) ==
    IF is_rejected(points_ptr, points_len)
    THEN /\ last' = [op |-> "smooth_stroke", ptr |-> points_ptr, len |-> points_len,
                     mem |-> mem, ret |-> NULL, trace |-> << >>]
         /\ UNCHANGED <<heap, handles, ub>>
    ELSE LET points == SubSeq(mem, 1, points_len)
             res == Smoothed[points]
         IN /\ BagCardinality(handles) < MaxLive
            /\ \E p \in Addrs \ DOMAIN heap :
                 /\ heap' = Store(heap, p, res.buf)
                 /\ handles' = handles (+) SetToBag({[ptr |-> p,
                                    size |-> 4 + 12 * HeaderCount(res.buf.bytes)]})
                 /\ last' = [op |-> "smooth_stroke", ptr |-> points_ptr, len |-> points_len,
                             mem |-> mem, ret |-> p, trace |-> res.trace]
            /\ UNCHANGED ub

\* alloc(size): Vec::with_capacity(size) forgotten; capacity 0 allocates
\* nothing and yields the dangling pointer.
alloc(size) ==
    /\ BagCardinality(handles) < MaxLive
    /\ IF size = 0
       THEN /\ handles' = handles (+) SetToBag({[ptr |-> DANGLING, size |-> size]})
            /\ last' = [op |-> "alloc", ptr |-> NULL, len |-> size, mem |-> << >>,
                        ret |-> DANGLING, trace |-> << >>]
            /\ UNCHANGED heap
       ELSE \E p \in Addrs \ DOMAIN heap :
            /\ heap' = Store(heap, p, [cap |-> size, bytes |-> << >>])
            /\ handles' = handles (+) SetToBag({[ptr |-> p, size |-> size]})
            /\ last' = [op |-> "alloc", ptr |-> NULL, len |-> size, mem |-> << >>,
                        ret |-> p, trace |-> << >>]
    /\ UNCHANGED ub

\* Variants of free_guard.
free_guard_or(ptr, size) == ptr # NULL \/ size > 0

free_guard_big(ptr, size) == ptr # NULL /\ size > 1

\* The guard of free_buffer.
free_guard(ptr, size) == ptr # NULL /\ size > 0

\* free_buffer as the code runs it: Vec::from_raw_parts(ptr, size, size)
\* dropped at once.  Rebuilding a Vec from anything but a live allocation of
\* capacity `size` is undefined behaviour, recorded in ub.
free_buffer(ptr, size) ==
    /\ last' = [op |-> "free_buffer", ptr |-> ptr, len |-> size, mem |-> << >>,
                ret |-> NULL, trace |-> << >>]
    /\ IF free_guard(ptr, size)
       THEN IF ptr \in DOMAIN heap /\ heap[ptr].cap = size
            THEN heap' = Drop(heap, ptr) /\ UNCHANGED ub
            ELSE ub' = TRUE /\ UNCHANGED heap
       ELSE UNCHANGED <<heap, ub>>

\* The host presents a handle it holds: with the handle's size (a release,
\* after which the handle is gone) or with size 0.
host_release(h) ==
    /\ free_buffer(h.ptr, h.size)
    /\ handles' = handles (-) SetToBag({h})

host_free_zero(h) ==
    /\ free_buffer(h.ptr, 0)
    /\ UNCHANGED handles

host_free_null(size) ==
    /\ free_buffer(NULL, size)
    /\ UNCHANGED handles

call_smooth_stroke ==
    \/ \E mem \in Memories : smooth_stroke(HostPtr, Len(mem), mem)
    \/ \E len \in {0, 3, 6, 7} : smooth_stroke(NULL, len, << >>)

call_alloc == \E size \in 0..MaxSize : alloc(size)

call_free_buffer ==
    \/ \E h \in BagToSet(handles) : host_release(h)
    \/ \E h \in BagToSet(handles) : host_free_zero(h)
    \/ \E size \in 0..MaxSize : host_free_null(size)

Next == call_smooth_stroke \/ call_alloc \/ call_free_buffer

Spec == Init /\ [][Next]_vars

(* ------------------------------------------------------ reading the wire *)
Undecodable == 0 - Pow(2, 30)

\* The scalar (in units of 1/Scale) a reader of little-endian binary32
\* finds in the four bytes after offset off.
DecodeF32(bytes, off) ==
    IF off + 4 > Len(bytes) THEN Undecodable
    ELSE LET b0 == bytes[off + 1]
             b1 == bytes[off + 2]
             b2 == bytes[off + 3]
             b3 == bytes[off + 4]
             sign == b3 \div 128
             exp == (b3 % 128) * 2 + b2 \div 128
             mant == (b2 % 128) * 65536 + b1 * 256 + b0
             sig == Pow(2, 23) + mant
             down == 150 - FracBits - exp
         IN IF exp = 0 /\ mant = 0 /\ sign = 0 THEN 0
            ELSE IF down < 0 \/ down > 23 THEN Undecodable
            ELSE IF sig % Pow(2, down) # 0 THEN Undecodable
            ELSE IF sign = 1 THEN 0 - (sig \div Pow(2, down))
            ELSE sig \div Pow(2, down)

\* Header count, then count triplets of f32.
DecodePoints(bytes) ==
    [k \in 1..(3 * HeaderCount(bytes)) |-> DecodeF32(bytes, 4 * k)]

Fx(n, d) == (n * Scale) \div d

Accepted == last.op = "smooth_stroke" /\ last.ret # NULL
OutBytes == heap[last.ret].bytes
Serialized == IF last.trace = << >> THEN last.mem ELSE last.trace[Len(last.trace)]
FirstTriplet(s) == SubSeq(s, 1, 3)
LastTriplet(s) == SubSeq(s, Len(s) - 2, Len(s))
Min(a, b) == IF a <= b THEN a ELSE b
Max(a, b) == IF a <= b THEN b ELSE a
Between(v, a, b) == Min(a, b) <= v /\ v <= Max(a, b)
Pressures(s) == { s[3 * k] : k \in 1..(Len(s) \div 3) }
Malformed_call(ptr, len) == ptr = NULL \/ len = 0 \/ len % 3 # 0

(* ------------------------------------------------------------------ claims *)

\* C1: growth law. For a valid input of n >= 2 samples the point count in
\* the header of the returned buffer is 4 * n.
GrowthLaw ==
    (Accepted /\ last.len >= 6) => HeaderCount(OutBytes) = 4 * (last.len \div 3)

GrowthLawWitness ==
    /\ Accepted /\ last.len = 6
    /\ HeaderCount(OutBytes) = 8

\* C2: endpoint preservation. For n >= 2 samples the first and last
\* triplets of the output equal the first and last input triplets, after
\* each of the two iterations and in the returned buffer.
EndpointPreservation ==
    (Accepted /\ last.len >= 6) =>
        /\ \A k \in 1..Len(last.trace) :
              /\ FirstTriplet(last.trace[k]) = FirstTriplet(last.mem)
              /\ LastTriplet(last.trace[k]) = LastTriplet(last.mem)
        /\ FirstTriplet(DecodePoints(OutBytes)) = FirstTriplet(last.mem)
        /\ LastTriplet(DecodePoints(OutBytes)) = LastTriplet(last.mem)

EndpointPreservationWitness ==
    /\ Accepted /\ last.len = 6
    /\ FirstTriplet(last.mem) # LastTriplet(last.mem)
    /\ LastTriplet(DecodePoints(OutBytes)) = <<4 * Scale, 0 - 8 * Scale, Scale \div 2>>

\* C3: a call with a null pointer, a zero length or a length that is not a
\* multiple of 3 returns null and leaves the outstanding allocations (and
\* the handles the host holds) as they were; every other call returns a
\* non-null handle to an outstanding allocation.
MalformedRejected ==
    [][ last'.op = "smooth_stroke" =>
          IF Malformed_call(last'.ptr, last'.len)
          THEN last'.ret = NULL /\ heap' = heap /\ handles' = handles
          ELSE last'.ret # NULL /\ last'.ret \in DOMAIN heap' /\ last'.ret \notin DOMAIN heap
      ]_vars

MalformedRejectedWitness ==
    /\ last.op = "smooth_stroke" /\ last.ptr # NULL /\ last.len = 7
    /\ last.ret = NULL
    /\ DOMAIN heap # {}

\* C4: allocator balance. While the host releases every handle once with
\* its size, no release rebuilds a Vec from anything but a live allocation
\* of that size, the outstanding allocations are exactly the handles the
\* host still holds (with the sizes it holds them under), and once it holds
\* none, nothing is outstanding.
AllocatorBalance ==
    /\ ~ub
    /\ DOMAIN heap = { h.ptr : h \in { g \in BagToSet(handles) : g.size > 0 } }
    /\ \A h \in BagToSet(handles) :
          h.size > 0 => (h.ptr \in DOMAIN heap /\ heap[h.ptr].cap = h.size /\ handles[h] = 1)
    /\ (handles = EmptyBag => heap = << >>)

AllocatorBalanceWitness ==
    /\ last.op = "free_buffer" /\ last.ptr # NULL /\ last.len >= 16
    /\ handles = EmptyBag
    /\ heap = << >>

\* C5: wire buffer size. Every buffer serialize_points produced is exactly
\* 4 + 12 * point_count bytes long (and was allocated with that capacity),
\* point_count being the header value; for the buffer just returned it is
\* the number of samples serialized.
WireSize ==
    /\ \A p \in DOMAIN heap :
          heap[p].bytes # << >> =>
             /\ Len(heap[p].bytes) = 4 + 12 * HeaderCount(heap[p].bytes)
             /\ heap[p].cap = Len(heap[p].bytes)
    /\ Accepted => /\ OutBytes # << >>
                   /\ 3 * HeaderCount(OutBytes) = Len(Serialized)

WireSizeWitness ==
    /\ Accepted /\ last.len = 6
    /\ Len(OutBytes) = 100
    /\ \E p \in DOMAIN heap : p # last.ret /\ Len(heap[p].bytes) = 16

\* C6: identity for small input. A valid input of one sample skips
\* subdivision; the returned buffer has header 1 and its payload decodes
\* to the input scalars in order.
SmallInputIdentity ==
    (last.op = "smooth_stroke" /\ last.ptr # NULL /\ last.len = 3) =>
        /\ last.ret # NULL
        /\ last.trace = << >>
        /\ HeaderCount(OutBytes) = 1
        /\ Len(OutBytes) = 16
        /\ DecodePoints(OutBytes) = last.mem

SmallInputIdentityWitness ==
    /\ Accepted /\ last.len = 3
    /\ last.mem = <<0 - 2 * Scale, 6 * Scale, Scale \div 4>>
    /\ DecodePoints(OutBytes) = last.mem

\* C7 as stated: one iteration on [0,0,0, 10,0,1] gives
\* [0,0,0, 7.5,0,0.25, 2.5,0,0.75, 10,0,1].
ScenarioInput == <<0, 0, 0, Fx(10, 1), 0, Fx(1, 1)>>

ScenarioAsStated ==
    (Accepted /\ last.mem = ScenarioInput) =>
        last.trace[2] = <<0, 0, 0,
                          Fx(15, 2), 0, Fx(1, 4),
                          Fx(5, 2), 0, Fx(3, 4),
                          Fx(10, 1), 0, Fx(1, 1)>>

\* C7 amended: one iteration on [0,0,0, 10,0,1] gives
\* [0,0,0, 2.5,0,0.25, 7.5,0,0.75, 10,0,1] (q = (2.5, 0, 0.25) first, then
\* r = (7.5, 0, 0.75)); the second iteration gives 8 samples, the first
\* (0,0,0) and the last (10,0,1).
ScenarioAmended ==
    (Accepted /\ last.mem = ScenarioInput) =>
        /\ last.trace[2] = <<0, 0, 0,
                             Fx(5, 2), 0, Fx(1, 4),
                             Fx(15, 2), 0, Fx(3, 4),
                             Fx(10, 1), 0, Fx(1, 1)>>
        /\ Len(last.trace[3]) = 3 * 8
        /\ FirstTriplet(last.trace[3]) = <<0, 0, 0>>
        /\ LastTriplet(last.trace[3]) = <<Fx(10, 1), 0, Fx(1, 1)>>
        /\ DecodePoints(OutBytes) = last.trace[3]

ScenarioWitness ==
    /\ Accepted /\ last.mem = ScenarioInput
    /\ Len(last.trace) = 3
    /\ last.trace[2][4] = Fx(5, 2)

\* C8: pressure boundedness. In each iteration the pressures of the q and r
\* emitted for the pair (s_i, s_i+1) lie between the two pressures of the
\* pair; every pressure of the returned buffer lies between the least and
\* the greatest input pressure.
PressureBounded ==
    Accepted =>
        /\ \A k \in 1..(Len(last.trace) - 1) :
              \A i \in 0..(Len(last.trace[k]) \div 3 - 2) :
                 LET p0 == last.trace[k][3 * i + 3]
                     p1 == last.trace[k][3 * (i + 1) + 3]
                     q_p == last.trace[k + 1][3 * (2 * i + 1) + 3]
                     r_p == last.trace[k + 1][3 * (2 * i + 2) + 3]
                 IN Between(q_p, p0, p1) /\ Between(r_p, p0, p1)
        /\ \A v \in Pressures(DecodePoints(OutBytes)) :
              \E lo, hi \in Pressures(last.mem) : lo <= v /\ v <= hi

PressureBoundedWitness ==
    /\ Accepted /\ last.len = 6
    /\ Cardinality(Pressures(last.mem)) = 2
    /\ Cardinality(Pressures(DecodePoints(OutBytes))) > 2

\* C9: round trip. Reading the returned buffer as a u32 little-endian count
\* followed by count triplets of little-endian f32 gives back the scalar
\* sequence that was serialized, in order, and uses up the buffer.
RoundTrip ==
    Accepted =>
        /\ DecodePoints(OutBytes) = Serialized
        /\ Len(OutBytes) = 4 + 4 * Len(Serialized)

RoundTripWitness ==
    /\ Accepted /\ last.len = 6
    /\ \E k \in 1..Len(Serialized) : Serialized[k] < 0
    /\ \E k \in 1..Len(Serialized) : Serialized[k] % Scale # 0
    /\ DecodePoints(OutBytes) = Serialized

\* C10: free_buffer with a null pointer or with size 0 reclaims nothing:
\* the outstanding allocations are unchanged (and no Vec is rebuilt).
FreeNoOp ==
    [][ (last'.op = "free_buffer" /\ (last'.ptr = NULL \/ last'.len = 0)) =>
          (heap' = heap /\ ub' = ub)
      ]_vars

FreeNoOpWitness ==
    /\ last.op = "free_buffer" /\ last.len = 0
    /\ last.ptr \in DOMAIN heap

====
